---- MODULE Spec2Model ----
(***************************************************************************)
(* Model of the 720p video generator page (src/unnamed/part_000):          *)
(* useCanvasAnimation (drawFrame / start / tick / stop) and Page           *)
(* (supported, handleRecord, reset, the buttons and the duration input),   *)
(* together with the browser objects they drive: the MediaRecorder, the    *)
(* animation-frame queue, the stop timer and React's rendering.            *)
(*                                                                         *)
(* Units.  Times are in milliseconds.  The duration field holds a decimal  *)
(* number of seconds; the model holds it in half-milliseconds (1/2000 s)   *)
(* so that Math.round has something to round.  A progress value is a       *)
(* fraction <<num, den>>.                                                  *)
(***************************************************************************)
EXTENDS Integers, Sequences, FiniteSets, TLC

\* ---------------------------------------------------------------- bounds
\* handleRecord invocations that get as far as constructing a recorder
MaxSessions == 2
\* timeslice chunks one recorder emits before it is stopped
MaxChunks == 1

\* ------------------------------------------------------- program constants
WIDTH == 1280
HEIGHT == 720
\* lower clamp of durationMs in handleRecord
MinDurationMs == 1000
\* min / max attributes of the duration input, in seconds
InputMinSec == 2
InputMaxSec == 60

\* ------------------------------------------------------------ input sets
\* values of the duration field, in half-milliseconds:
\* -2 s, 0 (also the empty field), 6 s (the default), 61.0005 s
DurationInputs == {0 - 4000, 0, 12000, 122001}
DefaultDurationSec == 12000
\* viewport widths (CSS pixels)
Viewports == {800, 1920}
\* sizes of a recorder's data chunks (0: an empty chunk)
ChunkSizes == {0, 1}
\* browsers: whether MediaRecorder exists, and what isTypeSupported accepts
Browsers ==
    { [recorder |-> FALSE, types |-> {}],
      [recorder |-> TRUE, types |-> {}],
      [recorder |-> TRUE, types |-> {"video/webm;codecs=vp9,opus",
                                     "video/webm;codecs=vp8,opus", "video/webm"}] }

NoMime == "null"
MsgUnsupported == "MediaRecorder not supported in this browser."
MsgNoCapture == "Canvas captureStream not supported."
MsgFailed == "Recording failed."

Sessions == 1..MaxSessions

VARIABLES
    supported,          \* the memoised mime type, or NoMime
    hasCaptureStream,   \* whether the canvas has captureStream
    canvas,             \* [width, height] of the canvas bitmap
    durationSec,        \* the duration field (half-milliseconds)
    state,              \* the RecordingState
    progress,           \* useCanvasAnimation's progress state
    view,               \* what the last render saw: [status, progress]
    mediaRecorderRef,   \* 0 (null) or the recorder of the last session
    chunksRef,          \* the chunk buffer
    recState,           \* per recorder: "none" | "inactive" | "recording"
    emitted,            \* per recorder: every chunk it has emitted, in order
    events,             \* dataavailable events queued and not yet dispatched
    inv,                \* per handleRecord invocation: position and locals
    running,            \* the invocation executing synchronously, or 0
    rafRef,             \* 0 (null) or the handle of the last requested frame
    rafPending,         \* animation callbacks requested and not yet run: the
                        \* tick closure's durationMs and drawFrame progress, and
                        \* whether a frame boundary has passed since (due)
    elapsed,            \* performance.now() - startTimeRef.current
    lastFrame,          \* the last frame drawFrame drew
    op                  \* the handler that ran last: handleRecord, reset, other

vars == << supported, hasCaptureStream, canvas, durationSec, state,
           progress, view, mediaRecorderRef, chunksRef, recState, emitted,
           events, inv, running, rafRef, rafPending, elapsed, lastFrame, op >>

\* ---------------------------------------------------------------- helpers
Min(a, b) == IF a <= b THEN a ELSE b
Max(a, b) == IF a >= b THEN a ELSE b

\* Math.round of x/2 (halves round up, also for negatives)
MathRound(h) == (h + 1) \div 2

RECURSIVE SumSizes(_)
SumSizes(s) == IF s = << >> THEN 0 ELSE Head(s).size + SumSizes(Tail(s))

NonEmpty(c) == c.size > 0

RECURSIVE GCD(_, _)
GCD(a, b) == IF b = 0 THEN a ELSE GCD(b, a % b)
\* the number a/b (0 <= a, 0 < b), as a fraction in lowest terms
Frac(a, b) == <<a \div GCD(a, b), b \div GCD(a, b)>>

\* ------------------------------------------------------------- supported
\* useMemo at lines 144-151
Supported(browser) ==
    IF ~browser.recorder THEN NoMime
    ELSE IF "video/webm;codecs=vp9,opus" \in browser.types THEN "video/webm;codecs=vp9,opus"
    ELSE IF "video/webm;codecs=vp8,opus" \in browser.types THEN "video/webm;codecs=vp8,opus"
    ELSE IF "video/webm" \in browser.types THEN "video/webm"
    ELSE NoMime

\* ------------------------------------------------------ RecordingState
Idle == [status |-> "idle", message |-> "", url |-> << >>, size |-> 0, durationMs |-> 0]
Recording == [Idle EXCEPT !.status = "recording"]
Processing == [Idle EXCEPT !.status = "processing"]
Done(blob, d) ==
    [status |-> "done", message |-> "", url |-> blob, size |-> SumSizes(blob), durationMs |-> d]
Error(msg) == [Idle EXCEPT !.status = "error", !.message = msg]

\* ------------------------------------------------------------ the buttons
\* a Create button that is never disabled
DisabledNever(status) == FALSE
\* `disabled` of the Create button (line 221, 270)
Disabled(status) == status = "recording" \/ status = "processing"
\* the Reset button is rendered when status # idle (line 273) ...
ResetShown(status) == status # "idle"
\* a Reset button that is never disabled
ResetDisabledNever(status) == FALSE
\* ... and disabled while recording (line 274)
ResetDisabled(status) == status = "recording"

\* a handleRecord that does not look at `supported`
UnsupportedNever(mime) == FALSE
\* line 155: if (!supported)
Unsupported(mime) == mime = NoMime

\* ------------------------------------------------------------- durations
\* line 175: Math.max(1000, Math.round(durationSec * 1000))
DurationMs(sec) == Max(MinDurationMs, MathRound(sec))

\* a timer of no delay
TimerExpiredAtOnce(waited, d) == waited >= 0
\* the promise of lines 194-196 resolves once the timer of durationMs fires
TimerExpired(waited, d) == waited >= d

\* ------------------------------------------------------------- animation
\* line 102: Math.min(1, elapsed / durationMs)
Prog(e, d) == IF e >= d THEN <<1, 1>> ELSE Frac(e, d)
\* a tick that always requests the next frame
ShouldRescheduleAlways(e, d) == TRUE
\* line 106
ShouldReschedule(e, d) == e < d
\* lines 70 and 87 of drawFrame: the progress the frame shows
EasedProgress(p) == IF p[1] >= p[2] THEN <<1, 1>> ELSE p
NoFrame == [inv |-> 0, t |-> 0, progress |-> <<0, 1>>, durationMs |-> 0]

\* a canvas sized to what it is displayed at (width 100%, at most 960px)
EnsureCanvasSizeDisplayed(vw) ==
    [width |-> Min(vw, 960), height |-> (Min(vw, 960) * 9) \div 16]
\* lines 161-162
EnsureCanvasSize(vw) == [width |-> WIDTH, height |-> HEIGHT]

\* the instants at which the model looks at a session of d milliseconds
Instants(d) == {d \div 2, d, d + 16}

\* a handle requestAnimationFrame has not handed out among the live ones
FreshHandle(pending, ref) ==
    CHOOSE h \in 1..(Cardinality(pending) + 2) :
        h # ref /\ \A c \in pending : c.id # h

\* --------------------------------------------------------- invocations
\* pc: none (not begun), start (line 186), await (194), assemble (201), catch
\* (210), end; sec: the durationSec of its closure; waited: the time since its
\* timer was armed; stopAt: `waited` when it called recorder.stop(); anim: the
\* duration it gave to start(); sync: whether it is still in the run of the
\* click
NoInv == [pc |-> "none", durationMs |-> 0, sec |-> 0, waited |-> 0, stopAt |-> 0,
          anim |-> 0, blob |-> << >>, failed |-> FALSE, escaped |-> FALSE,
          sync |-> TRUE, outcome |-> ""]

\* a try block that ends at the await
InTryUntilAwait(pc) == pc \in {"setup", "start"}
\* the try block of handleRecord spans lines 154-210: every position is inside
InTry(pc) == pc \in {"setup", "start", "stop", "assemble"}

\* what a throw at position pc of invocation r does to it
Thrown(r, pc) ==
    IF InTry(pc)
    THEN [r EXCEPT !.pc = "catch", !.failed = TRUE]
    ELSE [r EXCEPT !.pc = "end", !.failed = TRUE, !.escaped = TRUE, !.outcome = "uncaught"]

\* The locals of an invocation that has returned, and the record of what a
\* stopped recorder with no event left had emitted, are dropped when the next
\* invocation begins: nothing of the program reads them.
DropLocals(r) == IF r.pc = "end" THEN [NoInv EXCEPT !.pc = "end"] ELSE r
Forget(i, next) == [j \in Sessions |-> IF j = i THEN next ELSE DropLocals(inv[j])]
Unreachable(j, ref) ==
    /\ ref # j
    /\ inv[j].pc = "end"
    /\ recState[j] = "inactive"
    /\ \A k \in 1..Len(events) : events[k].rec # j
\* a stopped recorder that nothing refers to any more is garbage
ForgetRecorders(i, ref, st) ==
    [j \in Sessions |->
        IF j = i THEN st ELSE IF Unreachable(j, ref) THEN "none" ELSE recState[j]]
ForgetEmitted ==
    [j \in Sessions |->
        IF recState[j] = "inactive" /\ \A k \in 1..Len(events) : events[k].rec # j
        THEN << >> ELSE emitted[j]]

Current == [status |-> state.status, progress |-> progress]

TypeOK ==
    /\ state.status \in {"idle", "recording", "processing", "done", "error"}
    /\ running \in 0..MaxSessions
    /\ mediaRecorderRef \in 0..MaxSessions

Init ==
    /\ \E b \in Browsers : supported = Supported(b)
    /\ hasCaptureStream \in BOOLEAN
    /\ canvas = [width |-> WIDTH, height |-> HEIGHT]
    /\ durationSec = DefaultDurationSec
    /\ state = Idle
    /\ progress = <<0, 1>>
    /\ view = [status |-> "idle", progress |-> <<0, 1>>]
    /\ mediaRecorderRef = 0
    /\ chunksRef = << >>
    /\ recState = [i \in Sessions |-> "none"]
    /\ emitted = [i \in Sessions |-> << >>]
    /\ events = << >>
    /\ inv = [i \in Sessions |-> NoInv]
    /\ running = 0
    /\ rafRef = 0
    /\ rafPending = {}
    /\ elapsed = 0
    /\ lastFrame = NoFrame
    /\ op = "other"

\* ------------------------------------------------------------ the inputs
\* onChange of the duration field (line 247): a discrete event, whose own
\* update is rendered at once (handleRecord's closure always holds the
\* current durationSec)
SetDurationSec(v) ==
    /\ running = 0
    /\ v # durationSec
    /\ durationSec' = v
    /\ op' = "other"
    /\ UNCHANGED << supported, hasCaptureStream, canvas, view, state, progress,
                    mediaRecorderRef, chunksRef, recState, emitted, events, inv,
                    running, rafRef, rafPending, elapsed, lastFrame >>

\* React renders the updates made outside a discrete event; the task it
\* schedules for that runs after the tasks queued before it in the same run
\* (the one recorder.stop() queues)
Render ==
    /\ running = 0
    /\ events = << >>
    /\ view # Current
    /\ view' = Current
    /\ op' = "other"
    /\ UNCHANGED << supported, hasCaptureStream, canvas, durationSec, state,
                    progress, mediaRecorderRef, chunksRef, recState, emitted, events,
                    inv, running, rafRef, rafPending, elapsed, lastFrame >>

\* ----------------------------------------------------------- handleRecord
\* a click on Create: lines 154-185
HandleRecord(i) ==
    /\ running = 0
    /\ ~Disabled(view.status)
    /\ inv[i].pc = "none"
    /\ \A j \in Sessions : j < i => inv[j].pc # "none"
    /\ op' = "handleRecord"
    /\ IF Unsupported(supported)
       THEN /\ state' = Error(MsgUnsupported)
            /\ view' = [view EXCEPT !.status = "error"]
            /\ UNCHANGED << canvas, chunksRef, recState, mediaRecorderRef, inv, running,
                            emitted >>
       ELSE /\ \E vw \in Viewports : canvas' = EnsureCanvasSize(vw)
            /\ IF ~hasCaptureStream
               THEN /\ state' = Error(MsgNoCapture)
                    /\ view' = [view EXCEPT !.status = "error"]
                    /\ UNCHANGED << chunksRef, recState, mediaRecorderRef, inv, running,
                                    emitted >>
               ELSE /\ chunksRef' = << >>
                    /\ running' = i
                    /\ \E ctorThrows \in BOOLEAN :
                         IF ctorThrows
                         THEN /\ inv' = Forget(i, Thrown(inv[i], "setup"))
                              /\ UNCHANGED << recState, mediaRecorderRef >>
                         ELSE /\ recState' = ForgetRecorders(i, i, "inactive")
                              /\ mediaRecorderRef' = i
                              /\ inv' = Forget(i,
                                    [inv[i] EXCEPT !.pc = "start", !.sec = durationSec,
                                        !.durationMs = DurationMs(durationSec)])
                    /\ emitted' = ForgetEmitted
                    /\ UNCHANGED << state, view >>
    /\ UNCHANGED << supported, hasCaptureStream, durationSec, progress,
                    events, rafRef, rafPending, elapsed, lastFrame >>

\* the end of an invocation's run: control returns to the event loop; what it
\* set in the click's own run is rendered at once
Returned(r, st) ==
    /\ running' = 0
    /\ view' = IF r.sync THEN [view EXCEPT !.status = st.status] ELSE view

\* lines 186-195: setState(recording), recorder.start(100), start(...), and the
\* stop timer is armed
HandleRecordStart(i) ==
    /\ running = i
    /\ inv[i].pc = "start"
    /\ state' = Recording
    /\ op' = "other"
    /\ \E startThrows \in BOOLEAN :
         IF startThrows
         THEN /\ inv' = [inv EXCEPT ![i] = Thrown(@, "start")]
              /\ IF InTry("start")
                 THEN UNCHANGED << running, view >>
                 ELSE Returned(inv[i], Recording)
              /\ UNCHANGED << recState, rafRef, rafPending, elapsed, lastFrame >>
         ELSE /\ recState' = [recState EXCEPT ![i] = "recording"]
              \* start(durationMs, ...): lines 97-98 and 110
              /\ LET kept == {c \in rafPending : c.id # rafRef}
                     h == FreshHandle(kept, rafRef)
                 IN /\ rafPending' = kept \cup
                          {[id |-> h, inv |-> i, durationMs |-> inv[i].durationMs,
                            drawProgress |-> view.progress, due |-> FALSE]}
                    /\ rafRef' = h
              /\ elapsed' = 0
              /\ lastFrame' = NoFrame
              /\ inv' = [inv EXCEPT ![i] =
                    [@ EXCEPT !.pc = "await", !.waited = 0, !.sync = FALSE,
                              !.anim = inv[i].durationMs]]
              /\ Returned(inv[i], Recording)
    /\ UNCHANGED << supported, hasCaptureStream, canvas, durationSec, progress,
                    mediaRecorderRef, chunksRef, emitted, events >>

\* recorder.stop() on recorder r: a recording recorder becomes inactive at
\* once and a task is queued that fires dataavailable with its last data
StopRecorder(r, size) ==
    LET c == [rec |-> r, n |-> Len(emitted[r]) + 1, size |-> size]
    IN /\ recState' = [recState EXCEPT ![r] = "inactive"]
       /\ emitted' = [emitted EXCEPT ![r] = Append(@, c)]
       /\ events' = Append(events, c)

\* stop() of useCanvasAnimation: lines 116-117
CancelPending == {c \in rafPending : c.id # rafRef}

\* the timer fires and the invocation resumes: lines 197-199
TimerFires(i) ==
    /\ running = 0
    /\ inv[i].pc = "await"
    /\ TimerExpired(inv[i].waited, inv[i].durationMs)
    /\ op' = "other"
    /\ \E size \in ChunkSizes, stopThrows \in BOOLEAN :
         IF recState[i] = "recording"
         THEN /\ ~stopThrows
              /\ StopRecorder(i, size)
              /\ rafPending' = CancelPending
              /\ rafRef' = 0
              /\ state' = Processing
              /\ running' = i
              /\ inv' = [inv EXCEPT ![i] =
                    [@ EXCEPT !.pc = "assemble", !.stopAt = inv[i].waited]]
         ELSE \* stop() on an inactive recorder throws InvalidStateError in
              \* some browsers and returns in others
              /\ size = 0
              /\ IF stopThrows
                 THEN /\ inv' = [inv EXCEPT ![i] = Thrown(@, "stop")]
                      /\ running' = IF InTry("stop") THEN i ELSE 0
                      /\ UNCHANGED << rafPending, rafRef, state >>
                 ELSE /\ rafPending' = CancelPending
                      /\ rafRef' = 0
                      /\ state' = Processing
                      /\ running' = i
                      /\ inv' = [inv EXCEPT ![i] =
                            [@ EXCEPT !.pc = "assemble", !.stopAt = inv[i].waited]]
              /\ UNCHANGED << recState, emitted, events >>
    /\ UNCHANGED << supported, hasCaptureStream, canvas, durationSec, progress,
                    view, mediaRecorderRef, chunksRef, elapsed, lastFrame >>

\* lines 201-209: the blob is built from the buffer, setState(done)
Assemble(i) ==
    /\ running = i
    /\ inv[i].pc = "assemble"
    /\ op' = "other"
    /\ \E blobThrows \in BOOLEAN :
         IF blobThrows
         THEN /\ inv' = [inv EXCEPT ![i] = Thrown(@, "assemble")]
              /\ IF InTry("assemble")
                 THEN UNCHANGED << running, view >>
                 ELSE Returned(inv[i], state)
              /\ UNCHANGED state
         ELSE /\ state' = Done(chunksRef, inv[i].durationMs)
              /\ inv' = [inv EXCEPT ![i] =
                    [@ EXCEPT !.pc = "end", !.blob = chunksRef, !.outcome = "done"]]
              /\ Returned(inv[i], state')
    /\ UNCHANGED << supported, hasCaptureStream, canvas, durationSec, progress,
                    mediaRecorderRef, chunksRef, recState, emitted, events, rafRef,
                    rafPending, elapsed, lastFrame >>

\* lines 210-212
Catch(i) ==
    /\ running = i
    /\ inv[i].pc = "catch"
    /\ op' = "other"
    /\ state' = Error(MsgFailed)
    /\ inv' = [inv EXCEPT ![i] = [@ EXCEPT !.pc = "end", !.outcome = "error"]]
    /\ Returned(inv[i], state')
    /\ UNCHANGED << supported, hasCaptureStream, canvas, durationSec, progress,
                    mediaRecorderRef, chunksRef, recState, emitted, events, rafRef,
                    rafPending, elapsed, lastFrame >>

\* ------------------------------------------------------------------ reset
\* a click on Reset: lines 215-219.  stop() on a recorder that is no longer
\* recording does nothing, or throws out of reset after the state is set:
\* either way nothing more changes.
Reset ==
    /\ running = 0
    /\ ResetShown(view.status)
    /\ ~ResetDisabled(view.status)
    /\ op' = "reset"
    /\ state' = Idle
    /\ view' = [view EXCEPT !.status = "idle"]
    /\ chunksRef' = << >>
    /\ IF mediaRecorderRef # 0 /\ recState[mediaRecorderRef] = "recording"
       THEN \E size \in ChunkSizes : StopRecorder(mediaRecorderRef, size)
       ELSE UNCHANGED << recState, emitted, events >>
    /\ UNCHANGED << supported, hasCaptureStream, canvas, durationSec, progress,
                    mediaRecorderRef, inv, running, rafRef, rafPending, elapsed,
                    lastFrame >>

\* ----------------------------------------------------------- the recorder
\* recorder.ondataavailable: lines 181-185
OnDataAvailable(buffer, data) == IF NonEmpty(data) THEN Append(buffer, data) ELSE buffer

\* the recorder hands over a timeslice of data (recorder.start(100)): the
\* task that gathers it fires dataavailable
RecorderEmit(r) ==
    /\ running = 0
    /\ recState[r] = "recording"
    /\ Len(emitted[r]) < MaxChunks
    /\ op' = "other"
    /\ \E size \in ChunkSizes :
         LET c == [rec |-> r, n |-> Len(emitted[r]) + 1, size |-> size]
         IN /\ emitted' = [emitted EXCEPT ![r] = Append(@, c)]
            /\ chunksRef' = OnDataAvailable(chunksRef, c)
    /\ UNCHANGED << supported, hasCaptureStream, canvas, durationSec, state,
                    progress, view, mediaRecorderRef, recState, events, inv, running,
                    rafRef, rafPending, elapsed, lastFrame >>

\* the recorder fails or its stream ends: it becomes inactive by itself and
\* the same task fires dataavailable with what it has
RecorderError(r) ==
    /\ running = 0
    /\ recState[r] = "recording"
    /\ op' = "other"
    /\ \E size \in ChunkSizes :
         LET c == [rec |-> r, n |-> Len(emitted[r]) + 1, size |-> size]
         IN /\ recState' = [recState EXCEPT ![r] = "inactive"]
            /\ emitted' = [emitted EXCEPT ![r] = Append(@, c)]
            /\ chunksRef' = OnDataAvailable(chunksRef, c)
    /\ UNCHANGED << supported, hasCaptureStream, canvas, durationSec, state,
                    progress, view, mediaRecorderRef, events, inv, running, rafRef,
                    rafPending, elapsed, lastFrame >>

\* the task recorder.stop() queued runs: dataavailable with the last data
DataAvailable ==
    /\ running = 0
    /\ events # << >>
    /\ op' = "other"
    /\ chunksRef' = OnDataAvailable(chunksRef, Head(events))
    /\ events' = Tail(events)
    /\ UNCHANGED << supported, hasCaptureStream, canvas, durationSec, state,
                    progress, view, mediaRecorderRef, recState, emitted, inv, running,
                    rafRef, rafPending, elapsed, lastFrame >>

\* ---------------------------------------------------------- the animation
\* tick: lines 99-109
Tick(c) ==
    /\ running = 0
    /\ c \in rafPending
    /\ c.due
    /\ op' = "other"
    /\ progress' = Prog(elapsed, c.durationMs)
    /\ lastFrame' = [inv |-> c.inv, t |-> elapsed,
                     progress |-> EasedProgress(c.drawProgress),
                     durationMs |-> c.durationMs]
    /\ IF ShouldReschedule(elapsed, c.durationMs)
       THEN LET rest == rafPending \ {c}
                h == FreshHandle(rest, rafRef)
            IN /\ rafPending' = rest \cup {[c EXCEPT !.id = h, !.due = FALSE]}
               /\ rafRef' = h
       ELSE /\ rafPending' = rafPending \ {c}
            /\ UNCHANGED rafRef
    /\ UNCHANGED << supported, hasCaptureStream, canvas, durationSec, state,
                    view, mediaRecorderRef, chunksRef, recState, emitted, events, inv,
                    running, elapsed >>

\* time passes, to one of the instants the model looks at; it is followed
\* only while a timer or an animation callback is waiting for it
Advance(t) ==
    /\ running = 0
    /\ t > elapsed
    /\ \/ \E i \in Sessions : inv[i].pc = "await" /\ t \in Instants(inv[i].durationMs)
       \/ \E c \in rafPending : t \in Instants(c.durationMs)
    /\ elapsed' = t
    /\ inv' = [i \in Sessions |->
                 IF inv[i].pc = "await"
                 THEN [inv[i] EXCEPT !.waited = @ + (t - elapsed)]
                 ELSE inv[i]]
    /\ rafPending' = {[c EXCEPT !.due = TRUE] : c \in rafPending}
    /\ op' = "other"
    /\ UNCHANGED << supported, hasCaptureStream, canvas, durationSec, state,
                    progress, view, mediaRecorderRef, chunksRef, recState, emitted,
                    events, running, rafRef, lastFrame >>

AllInstants == UNION {Instants(DurationMs(s)) : s \in DurationInputs}

Next ==
    \/ \E v \in DurationInputs : SetDurationSec(v)
    \/ Render
    \/ \E i \in Sessions : HandleRecord(i)
    \/ \E i \in Sessions : HandleRecordStart(i)
    \/ \E i \in Sessions : TimerFires(i)
    \/ \E i \in Sessions : Assemble(i)
    \/ \E i \in Sessions : Catch(i)
    \/ Reset
    \/ \E r \in Sessions : RecorderEmit(r)
    \/ \E r \in Sessions : RecorderError(r)
    \/ DataAvailable
    \/ \E c \in rafPending : Tick(c)
    \/ \E t \in AllInstants : Advance(t)

Spec == Init /\ [][Next]_vars

\* ================================================================ claims

\* C1: for every value of the duration field, the durationMs handleRecord
\* uses lies within what the input declares, 2 to 60 seconds.
\* The code clamps at 1000 ms below and not at all above.
C1_DurationWithinInputRange ==
    \A i \in Sessions :
        inv[i].pc \in {"start", "await", "assemble"} =>
            /\ inv[i].durationMs >= InputMinSec * 1000
            /\ inv[i].durationMs <= InputMaxSec * 1000

\* C2: in a session that reaches done, recorder.stop() was called no earlier
\* than durationMs after the timer was armed, and one durationMs, the one
\* computed from the duration field of the click, is the timer's, the
\* animation's and the one the done state reports.
C2_StopAfterDuration ==
    \A i \in Sessions :
        inv[i].outcome = "done" =>
            /\ inv[i].stopAt >= inv[i].durationMs
            /\ inv[i].durationMs = Max(1000, (inv[i].sec + 1) \div 2)
            /\ inv[i].anim = inv[i].durationMs
            /\ state.status = "done" => state.durationMs = inv[i].durationMs

\* a session is done whose duration field was changed while it recorded
C2_Witness ==
    \E i \in Sessions :
        /\ inv[i].outcome = "done"
        /\ state.status = "done"
        /\ inv[i].sec # durationSec
        /\ inv[i].stopAt > inv[i].durationMs

\* C3: whenever a capture stream has been taken from the canvas or a recorder
\* is recording, the canvas is 1280 wide and 720 high.
C3_CanvasIs720p ==
    (\E i \in Sessions : inv[i].pc = "start" \/ recState[i] = "recording") =>
        canvas.width = 1280 /\ canvas.height = 720

\* a later session is recording
C3_Witness ==
    \E i \in Sessions : i > 1 /\ recState[i] = "recording" /\ canvas.width = 1280

\* C4: without a supported WebM format, or without captureStream on the
\* canvas, handleRecord ends in the error state with a message; no recorder is
\* created or started, no animation is started, the chunk buffer stays as it
\* was, the status is never recording, and nothing is thrown.
C4_UnsupportedEndsInError ==
    (supported = NoMime \/ ~hasCaptureStream) =>
        /\ \A i \in Sessions : recState[i] = "none" /\ inv[i].pc = "none"
        /\ rafPending = {} /\ rafRef = 0
        /\ chunksRef = << >>
        /\ running = 0
        /\ state.status \in {"idle", "error"}
        /\ op = "handleRecord" =>
              state = Error(IF supported = NoMime THEN MsgUnsupported ELSE MsgNoCapture)

\* handleRecord has run in a browser without a WebM format
C4_Witness ==
    /\ supported = NoMime
    /\ op = "handleRecord"
    /\ state = Error(MsgUnsupported)

\* C5: a failure at any step of handleRecord is caught: the invocation ends
\* with status error and a message, not with an escaped exception, and so not
\* with the status left at recording or processing.
C5_FailuresAreCaught ==
    [][\A i \in Sessions :
          (inv[i].pc # "end" /\ inv'[i].pc = "end" /\ inv'[i].failed) =>
              /\ ~inv'[i].escaped
              /\ state'.status = "error"
              /\ state'.message # ""
              /\ running' = 0]_vars

\* an invocation has failed after its await, and ended
C5_Witness ==
    \E i \in Sessions :
        /\ inv[i].pc = "end" /\ inv[i].failed /\ ~inv[i].sync
        /\ state = Error(MsgFailed)

\* C6: the blob of a done session holds every non-empty chunk its recorder
\* emitted, in order, the data of recorder.stop() included, and no chunk of the
\* session is still to arrive.  The code builds the blob in the run that calls
\* recorder.stop(), before the task that delivers the last data.
C6_BlobHoldsEveryChunk ==
    \A i \in Sessions :
        inv[i].outcome = "done" =>
            /\ inv[i].blob = SelectSeq(emitted[i], NonEmpty)
            /\ \A k \in 1..Len(events) : events[k].rec # i

\* C7: the progress a frame shows is min(1, elapsed / durationMs) of the tick
\* that drew it.  The code's drawFrame shows the progress of the render that
\* created it.
C7_FrameShowsTickProgress ==
    lastFrame.inv # 0 => lastFrame.progress = Prog(lastFrame.t, lastFrame.durationMs)

\* the order of the statuses, with the statuses a session may begin from
StatusOrder(beginFrom) ==
    /\ (state'.status = "processing" /\ state.status # "processing") =>
           state.status = "recording"
    /\ (state'.status = "done" /\ state.status # "done") => state.status = "processing"
    /\ (state'.status = "idle" /\ state.status # "idle") => op' = "reset"
    /\ (state'.status = "recording" /\ state.status # "recording") =>
           state.status \in beginFrom

\* C8 as stated: processing is entered only from recording, done only from
\* processing, idle only by Reset, and recording only from idle.
C8_LinearFromIdle == [][StatusOrder({"idle"})]_vars

\* C8 as amended: processing is entered only from recording, done only from
\* processing, idle only by Reset, and recording only from idle, done or
\* error (never from recording or processing).
C8_LinearOrder == [][StatusOrder({"idle", "done", "error"})]_vars

\* handleRecord has begun a session with the status at done, and is about to
\* set it to recording
C8_Witness ==
    /\ op = "handleRecord"
    /\ state.status = "done"
    /\ \E i \in Sessions : running = i /\ inv[i].pc = "start"

\* C9: at most one animation callback is pending at any time; once stop() has
\* run (rafRef is null) none is pending and no frame is drawn until the next
\* start; and a tick whose elapsed time has reached durationMs schedules no
\* further callback.
C9_AnimationBounded ==
    /\ [](Cardinality(rafPending) <= 1 /\ (rafRef = 0 => rafPending = {}))
    /\ [][/\ (rafRef = 0 /\ rafRef' = 0) => lastFrame' = lastFrame
          /\ (lastFrame' # lastFrame /\ lastFrame'.inv # 0
                /\ lastFrame'.t >= lastFrame'.durationMs) =>
                 rafPending' \subseteq rafPending]_vars

\* a tick ran at the end of the duration, and then stop()
C9_Witness ==
    /\ rafRef = 0
    /\ lastFrame.inv # 0
    /\ lastFrame.t >= lastFrame.durationMs
    /\ state.status = "done"

IsPrefix(s, t) == Len(s) <= Len(t) /\ SubSeq(t, 1, Len(s)) = s

\* C10: at most one recorder is recording at any time; handleRecord is never
\* begun while the status is recording or processing, Reset never runs while
\* it is recording, and the chunk buffer only grows while a recorder records.
C10_OneSessionAtATime ==
    /\ [](Cardinality({r \in Sessions : recState[r] = "recording"}) <= 1)
    /\ [][/\ op' = "handleRecord" => state.status \notin {"recording", "processing"}
          /\ op' = "reset" => state.status # "recording"
          /\ (\E r \in Sessions : recState[r] = "recording") =>
                 IsPrefix(chunksRef, chunksRef')]_vars

\* a second session is recording and has a chunk
C10_Witness ==
    \E r \in Sessions : r > 1 /\ recState[r] = "recording" /\ chunksRef # << >>

====
